---- MODULE Spec2Model ----
(***************************************************************************)
(* Contact-submission pipeline of the portfolio site: the Express route    *)
(* POST /api/contact of server.js (src/unnamed/part_001) and the           *)
(* serverless handler api/contact.js (src/api/contact.js).                 *)
(*                                                                         *)
(* A string is a sequence of one-character strings.  A JSON body field is  *)
(* a record [t, s]: t is its JavaScript type and s is String(value).       *)
(***************************************************************************)
EXTENDS Integers, Sequences, FiniteSets, TLC

\* ------------------------------------------------------------------------
\* Bounds of the model
\* ------------------------------------------------------------------------
MaxReq == 2

MaxEmailLen == 5

MaxHtmlLen == 3

MaxSubmits == 2

\* ------------------------------------------------------------------------
\* Program constants
\* ------------------------------------------------------------------------
MinNameLen == 2

MinSubjectLen == 3

MinMessageLen == 20

\* ------------------------------------------------------------------------
\* Strings and JSON values
\* ------------------------------------------------------------------------
Rep(c, n) == [i \in 1..n |-> c]

Whitespace == {" ", "\t", "\n"}

Str(s) == [t |-> "str", s |-> s]

\* a field absent from the body: destructuring yields undefined
Undef == [t |-> "undef", s |-> <<>>]

\* a JSON number (non-zero): truthy, has no trim/replace method
Num == [t |-> "num", s |-> <<"7">>]

\* a JSON array holding one string: truthy, String([x]) = x, no trim/replace
Arr(s) == [t |-> "arr", s |-> s]

IsString(v) == v.t = "str"

\* JavaScript truthiness, as used by `!name`
Truthy(v) ==
    CASE v.t = "str" -> v.s # <<>>
      [] v.t = "undef" -> FALSE
      [] OTHER -> TRUE

RECURSIVE TrimStart(_)
TrimStart(s) ==
    IF s # <<>> /\ Head(s) \in Whitespace THEN TrimStart(Tail(s)) ELSE s

RECURSIVE TrimEnd(_)
TrimEnd(s) ==
    IF s # <<>> /\ s[Len(s)] \in Whitespace
    THEN TrimEnd(SubSeq(s, 1, Len(s) - 1))
    ELSE s

\* String.prototype.trim
Trim(s) == TrimEnd(TrimStart(s))

\* the character class [^\s@]
NotSpaceAt(c) == c \notin Whitespace /\ c # "@"

AllNotSpaceAt(s, a, b) == \A k \in a..b : NotSpaceAt(s[k])

\* /^[^\s@]+@[^\s@]+\.[^\s@]+$/.test(email): some split of the whole string
\* into  local "@" domain "." tld  with three non-empty [^\s@] runs
isValidEmailNoAnchor(s) ==
    \E i \in 2..Len(s) : \E j \in (i + 2)..Len(s) :
        /\ s[i] = "@"
        /\ s[j] = "."
        /\ AllNotSpaceAt(s, 1, i - 1)
        /\ AllNotSpaceAt(s, i + 1, j - 1)

isValidEmail(s) ==
    \E i \in 2..Len(s) : \E j \in (i + 2)..(Len(s) - 1) :
        /\ s[i] = "@"
        /\ s[j] = "."
        /\ AllNotSpaceAt(s, 1, i - 1)
        /\ AllNotSpaceAt(s, i + 1, j - 1)
        /\ AllNotSpaceAt(s, j + 1, Len(s))

\* ------------------------------------------------------------------------
\* Validation
\* ------------------------------------------------------------------------
ErrorMessages ==
    << "Name is required (min 2 characters)",
       "Valid email address is required",
       "Subject is required (min 3 characters)",
       "Message is required (min 20 characters)" >>

\* `!v || v.trim().length < min`: "fail" pushes the error, "throw" is the
\* TypeError of calling .trim on a truthy value that is not a string
LengthCheck(v, min) ==
    IF ~Truthy(v) THEN "fail"
    ELSE IF ~IsString(v) THEN "throw"
    ELSE IF Len(Trim(v.s)) < min THEN "fail"
    ELSE "pass"

\* `!email || !isValidEmail(email)`: RegExp.test coerces with String()
EmailCheck(v) ==
    IF ~Truthy(v) THEN "fail"
    ELSE IF ~isValidEmail(v.s) THEN "fail"
    ELSE "pass"

\* the four checks in statement order; a throw abandons the rest
RunChecks(c) ==
    LET stop == IF \E k \in 1..4 : c[k] = "throw"
                THEN CHOOSE k \in 1..4 :
                        c[k] = "throw" /\ \A m \in 1..(k - 1) : c[m] # "throw"
                ELSE 5
        idx == SelectSeq(<<1, 2, 3, 4>>, LAMBDA k : k < stop /\ c[k] = "fail")
    IN  [ threw  |-> stop < 5,
          errors |-> [n \in 1..Len(idx) |-> ErrorMessages[idx[n]]] ]

\* server.js, app.post('/api/contact'), validation block
Validate(in) ==
    RunChecks(<< LengthCheck(in.name, MinNameLen),
                 EmailCheck(in.email),
                 LengthCheck(in.subject, MinSubjectLen),
                 LengthCheck(in.message, MinMessageLen) >>)

\* api/contact.js, validation block
ValidateServerless(in) ==
    RunChecks(<< LengthCheck(in.name, MinNameLen),
                 EmailCheck(in.email),
                 LengthCheck(in.subject, MinSubjectLen),
                 LengthCheck(in.message, MinMessageLen) >>)

\* `errors.length > 0`
HasErrorsOffByOne(errors) == Len(errors) > 1

HasErrors(errors) == Len(errors) > 0

Verdict(v) ==
    IF v.threw THEN "threw"
    ELSE IF HasErrors(v.errors) THEN "invalid"
    ELSE "valid"

\* script.js FormHandler.validators: the messages, in the order of the keys
ValidatorMessages ==
    << "Name must be at least 2 characters",
       "Please enter a valid email address",
       "Subject must be at least 3 characters",
       "Message must be at least 20 characters" >>

\* validators with `>` written for `>=`
validatorsStrict(in) ==
    << Len(Trim(in.name.s)) > MinNameLen,
       isValidEmail(in.email.s),
       Len(Trim(in.subject.s)) > MinSubjectLen,
       Len(Trim(in.message.s)) > MinMessageLen >>

\* script.js FormHandler.validators, each applied to the value of its input
\* (a string): name, email, subject, message
validators(in) ==
    << Len(Trim(in.name.s)) >= MinNameLen,
       isValidEmail(in.email.s),
       Len(Trim(in.subject.s)) >= MinSubjectLen,
       Len(Trim(in.message.s)) >= MinMessageLen >>

\* validateForm that keeps only the result of the field validated last
validateFormLastOnly(in) == validators(in)[4]

\* script.js FormHandler.validateForm: every field is validated, and the
\* form is valid when none failed
validateForm(in) == \A k \in 1..4 : validators(in)[k]

\* the messages validateField leaves under the failing inputs
validateFormErrors(in) ==
    LET idx == SelectSeq(<<1, 2, 3, 4>>, LAMBDA k : ~validators(in)[k])
    IN  [n \in 1..Len(idx) |-> ValidatorMessages[idx[n]]]

\* ------------------------------------------------------------------------
\* Responses
\* ------------------------------------------------------------------------
ThankYou == "Thank you for your message! I will get back to you soon."

GenericFailure ==
    "Sorry, there was an error sending your message. Please try again later."

NoBody == [kind |-> "none", success |-> FALSE, message |-> "", errors |-> <<>>]

\* res.status(200).end()
EmptyBody == [kind |-> "empty", success |-> FALSE, message |-> "", errors |-> <<>>]

\* { success: false, errors }
RejectedBody(errors) ==
    [kind |-> "json", success |-> FALSE, message |-> "", errors |-> errors]

\* { success: true, message: 'Thank you ...' }
SuccessBody ==
    [kind |-> "json", success |-> TRUE, message |-> ThankYou, errors |-> <<>>]

\* the catch block's body, given the caught error
FailureBodyLeaky(err) ==
    [kind |-> "json", success |-> FALSE, message |-> err, errors |-> <<>>]

FailureBody(err) ==
    [kind |-> "json", success |-> FALSE, message |-> GenericFailure,
     errors |-> <<>>]

MethodNotAllowedBody ==
    [kind |-> "json", success |-> FALSE, message |-> "Method not allowed",
     errors |-> <<>>]

\* { status: 'ok', message: 'Portfolio API is running', timestamp, ... }: the
\* body has no `success` field; emailConfigured is kept in the request record
HealthBody ==
    [kind |-> "json", success |-> FALSE,
     message |-> "Portfolio API is running", errors |-> <<>>]

\* { success: true, data: [...] }
ProjectsBody ==
    [kind |-> "json", success |-> TRUE, message |-> "", errors |-> <<>>]

\* { success: false, message: 'API endpoint not found' }
NotFoundBody ==
    [kind |-> "json", success |-> FALSE, message |-> "API endpoint not found",
     errors |-> <<>>]

\* res.sendFile(path.join(__dirname, 'index.html'))
IndexPage == [kind |-> "file", success |-> FALSE, message |-> "", errors |-> <<>>]

\* no route of server.js matches: Express answers with its own 404 page
DefaultNotFoundBody ==
    [kind |-> "html", success |-> FALSE, message |-> "", errors |-> <<>>]

\* ------------------------------------------------------------------------
\* Inputs
\* ------------------------------------------------------------------------
Submission(n, e, s, m) == [name |-> n, email |-> e, subject |-> s, message |-> m]

NoInput == Submission(Undef, Undef, Undef, Undef)

LongMessage == Str(Rep("m", MinMessageLen))

GoodEmail == <<"a", "@", "b", ".", "c", "o">>

\* {name:"Al", email:"a@b.co", subject:"Hi!", message:<long enough>}
Scenario1 ==
    Submission(Str(<<"A", "l">>), Str(GoodEmail), Str(<<"H", "i", "!">>),
               LongMessage)

\* {name:"A", email:"bad", subject:"Hi!", message:"short"}
Scenario2 ==
    Submission(Str(<<"A">>), Str(<<"b", "a", "d">>), Str(<<"H", "i", "!">>),
               Str(<<"s", "h", "o", "r", "t">>))

\* only the name is too short
ShortName == [Scenario1 EXCEPT !.name = Str(<<" ", "A", " ">>)]

\* {name: 7, ...}
NumberName == [Scenario1 EXCEPT !.name = Num]

\* {email: ["a@b.co"], ...}
ArrayEmail == [Scenario1 EXCEPT !.email = Arr(GoodEmail)]

Bodies == {Scenario1, Scenario2, ShortName, NumberName, ArrayEmail, NoInput}

Methods == {"POST", "OPTIONS", "GET"}

\* methods sent to the routes of server.js (OPTIONS is answered by the cors()
\* middleware before any route)
RouteMethods == {"GET", "POST", "PUT"}

\* request paths, as their segments: "/api/health" is <<"api", "health">>
Root == <<>>

ApiHealth == <<"api", "health">>

ApiContact == <<"api", "contact">>

ApiProjects == <<"api", "projects">>

ApiSkills == <<"api", "skills">>

ApiUnknown == <<"api", "nope">>

ApiBare == <<"api">>

Paths ==
    {Root, ApiHealth, ApiContact, ApiProjects, ApiSkills, ApiUnknown, ApiBare}

\* req.path.startsWith('/api/')
StartsWithApi(path) == Len(path) >= 2 /\ path[1] = "api"

\* error details a transport or the account provisioning can raise
ErrDetails == {"ECONNREFUSED", "EAUTH"}

\* inputs of the validation specification
EmailChars == {"a", "@", "."}

RECURSIVE StringsUpTo(_, _)
StringsUpTo(chars, n) ==
    IF n = 0 THEN {<<>>}
    ELSE LET shorter == StringsUpTo(chars, n - 1)
         IN  shorter \cup {Append(s, c) : s \in shorter, c \in chars}

Padded(core) == {core, <<"\t">> \o core \o <<" ", "\n">>}

NameValues ==
    {Undef, Num} \cup
    {Str(s) : s \in Padded(Rep("n", MinNameLen - 1)) \cup
                    Padded(Rep("n", MinNameLen)) \cup Padded(<<>>)}

EmailValues ==
    {Undef, Arr(GoodEmail)} \cup
    {Str(s) : s \in StringsUpTo(EmailChars, MaxEmailLen) \cup
                    { GoodEmail, <<" ">> \o GoodEmail, GoodEmail \o <<"\n">>,
                      <<"a", " ", "@", "b", ".", "c">>,
                      <<"a", "@", "b", "\t", ".", "c">> }}

SubjectValues ==
    {Undef} \cup
    {Str(s) : s \in Padded(Rep("s", MinSubjectLen - 1)) \cup
                    Padded(Rep("s", MinSubjectLen))}

MessageValues ==
    {Undef} \cup
    {Str(s) : s \in Padded(Rep("m", MinMessageLen - 1)) \cup
                    Padded(Rep("m", MinMessageLen)) \cup
                    {Rep("m", MinMessageLen - 2) \o <<" ", "m">>}}

\* every Submission(n, e, s, m) with its fields drawn from the sets above
ValInputs ==
    [name : NameValues, email : EmailValues,
     subject : SubjectValues, message : MessageValues]

\* ------------------------------------------------------------------------
\* State
\* ------------------------------------------------------------------------
VARIABLES
    env,          \* process.env: which EMAIL_* settings are present
    transporter,  \* server.js `let transporter`: "null", "auth" or "test"
    boot,         \* progress of setupEmailTransporter / setupTestEmail
    log,          \* contact_submissions.txt, as a sequence of written pieces
    req,          \* the contact requests, by request id
    vin,          \* validation specification: the submission under test
    vout,         \* validation specification: the validation result
    rendered,     \* rendering specification: the mail bodies rendered from vin
    form,         \* script.js: the contact form and its submit button
    menu,         \* script.js: the mobile menu
    typer         \* script.js: TypewriterAnimation and the elements it fills

\* the state of the page in the browser
browser == <<form, menu, typer>>

vars == <<env, transporter, boot, log, req, vin, vout, rendered, browser>>

Requests == 1..MaxReq

IdleReq ==
    [ pc         |-> "idle",      \* idle, awaitAccount, awaitSend, done
      handler    |-> "none",      \* express, serverless
      method     |-> "none",
      path       |-> Root,
      input      |-> NoInput,
      verdict    |-> "none",      \* valid, invalid, threw, none
      errors     |-> <<>>,
      logged     |-> "no",        \* no, ok, failed
      transport  |-> "none",      \* transporter the handler got hold of
      sends      |-> 0,           \* calls of transporter.sendMail
      mailSubject |-> <<>>,       \* mailOptions.subject handed to sendMail
      mailTo     |-> "none",      \* mailOptions.to handed to sendMail
      sendResult |-> "none",      \* ok, fail
      errDetail  |-> "none",      \* what console.error received
      emailConfigured |-> "absent", \* of a health body: absent, true, false
      status     |-> 0,
      body       |-> NoBody ]

NoResult == [impl |-> "none", threw |-> FALSE, errors |-> <<>>]

\* EMAIL_USER && EMAIL_PASS && EMAIL_PASS is not a placeholder (server.js)
UsesCredentials(e) == e.user /\ e.pass = "real"

\* EMAIL_USER && EMAIL_PASS (api/contact.js)
UsesCredentialsServerless(e) == e.user /\ e.pass # "unset"

\* EMAIL_TO decides nothing but the recipient: it is left unset except in
\* the specification of the mail options, which draws from EnvsMail
Envs == [user : BOOLEAN, pass : {"unset", "placeholder", "real"}, to : {FALSE}]

EnvsMail == [user : BOOLEAN, pass : {"unset", "placeholder", "real"},
             to : BOOLEAN]

\* server.js mailOptions.to: EMAIL_TO || EMAIL_USER
mailTo(e) ==
    IF e.to THEN "EMAIL_TO" ELSE IF e.user THEN "EMAIL_USER" ELSE "undefined"

\* api/contact.js mailOptions.to: EMAIL_TO || EMAIL_USER || a fixed address
mailToServerless(e) ==
    IF e.to THEN "EMAIL_TO"
    ELSE IF e.user THEN "EMAIL_USER"
    ELSE "ajayjaiswar6340@gmail.com"

\* ------------------------------------------------------------------------
\* The submissions file
\* ------------------------------------------------------------------------
\* the template literal `entry`: its interpolated pieces, in order
Block(r, in) ==
    << [req |-> r, field |-> "timestamp", val |-> Str(<<>>)],
       [req |-> r, field |-> "name",      val |-> in.name],
       [req |-> r, field |-> "email",     val |-> in.email],
       [req |-> r, field |-> "subject",   val |-> in.subject],
       [req |-> r, field |-> "message",   val |-> in.message] >>

\* fs.writeFileSync would replace the file instead
WriteFile(file, entry) == entry

\* fs.appendFileSync(SUBMISSIONS_FILE, entry, 'utf8')
AppendFile(file, entry) == file \o entry

\* saveSubmissionToFile without its try/catch
saveSubmissionToFileNoCatch(file, r, in, ioOk) ==
    [ file   |-> IF ioOk THEN AppendFile(file, Block(r, in)) ELSE file,
      logged |-> IF ioOk THEN "ok" ELSE "failed",
      threw  |-> ~ioOk ]

\* saveSubmissionToFile: ioOk is whether the file system accepts the write
saveSubmissionToFile(file, r, in, ioOk) ==
    [ file   |-> IF ioOk THEN AppendFile(file, Block(r, in)) ELSE file,
      logged |-> IF ioOk THEN "ok" ELSE "failed",
      threw  |-> FALSE ]

\* ------------------------------------------------------------------------
\* Rendering (only whether it throws)
\* ------------------------------------------------------------------------
\* escapeHtml(text) calls text.replace: a TypeError unless text is a string
escapeHtmlThrows(v) == ~IsString(v)

\* generateEmailTemplate escapes name, email, subject, message and
\* name.split(' ')[0]
generateEmailTemplateThrows(in) ==
    \/ escapeHtmlThrows(in.name)
    \/ escapeHtmlThrows(in.email)
    \/ escapeHtmlThrows(in.subject)
    \/ escapeHtmlThrows(in.message)

\* the characters escapeHtml replaces
HtmlSpecial == {"&", "<", ">", "\"", "'"}

\* escapeHtml's `map`: the entity written for a character
map(c) ==
    CASE c = "&" -> <<"&", "a", "m", "p", ";">>
      [] c = "<" -> <<"&", "l", "t", ";">>
      [] c = ">" -> <<"&", "g", "t", ";">>
      [] c = "\"" -> <<"&", "q", "u", "o", "t", ";">>
      [] c = "'" -> <<"&", "#", "0", "3", "9", ";">>

\* text.replace without the g flag: only the first match is replaced
RECURSIVE escapeHtmlFirstOnly(_)
escapeHtmlFirstOnly(text) ==
    IF text = <<>> THEN <<>>
    ELSE IF Head(text) \in HtmlSpecial THEN map(Head(text)) \o Tail(text)
    ELSE <<Head(text)>> \o escapeHtmlFirstOnly(Tail(text))

\* text.replace(/[&<>"']/g, char => map[char]), on a string
RECURSIVE escapeHtml(_)
escapeHtml(text) ==
    IF text = <<>> THEN <<>>
    ELSE (IF Head(text) \in HtmlSpecial THEN map(Head(text))
          ELSE <<Head(text)>>) \o escapeHtml(Tail(text))

\* name.split(' ')[0]
RECURSIVE FirstWord(_)
FirstWord(name) ==
    IF name = <<>> \/ Head(name) = " " THEN <<>>
    ELSE <<Head(name)>> \o FirstWord(Tail(name))

\* A rendered body is the sequence of its pieces: the literal parts of the
\* template (shortened to their markup) and the interpolated values.
Tpl(text) == [from |-> "template", text |-> text]

Field(f, text) == [from |-> f, text |-> text]

OpenP == <<"<", "p", ">">>

CloseP == <<"<", "/", "p", ">">>

\* <a href="mailto:
OpenA == <<"<", "a", " ", "h", "r", "e", "f", "=", "\"">>

\* ?subject=Re:
Query == <<"?", "R", "e", ":", " ">>

\* ">
EndTag == <<"\"", ">">>

CloseA == <<"<", "/", "a", ">">>

\* generateEmailTemplate of either file, on string fields: the interpolations
\* in the order of the template
generateEmailTemplate(in) ==
    << Tpl(OpenP), Field("clock", <<>>), Tpl(CloseP),
       Tpl(OpenP), Field("name", escapeHtml(in.name.s)), Tpl(CloseP),
       Tpl(OpenA), Field("email", escapeHtml(in.email.s)), Tpl(EndTag),
       Field("email", escapeHtml(in.email.s)), Tpl(CloseA),
       Tpl(OpenP), Field("subject", escapeHtml(in.subject.s)), Tpl(CloseP),
       Tpl(OpenP), Field("message", escapeHtml(in.message.s)), Tpl(CloseP),
       Tpl(OpenA), Field("email", escapeHtml(in.email.s)), Tpl(Query),
       Field("subject", escapeHtml(in.subject.s)), Tpl(EndTag),
       Field("firstName", escapeHtml(FirstWord(in.name.s))), Tpl(CloseA) >>

\* server.js generatePlainTextEmail: the values as they are
generatePlainTextEmail(in) ==
    << Field("clock", <<>>), Field("name", in.name.s),
       Field("email", in.email.s), Field("subject", in.subject.s),
       Field("message", in.message.s) >>

\* api/contact.js mailOptions.text
plainTextServerless(in) ==
    << Field("name", in.name.s), Field("email", in.email.s),
       Field("subject", in.subject.s), Field("message", in.message.s) >>

\* ------------------------------------------------------------------------
\* The mail subject line
\* ------------------------------------------------------------------------
PortfolioPrefix == <<"P", "o", "r", "t", "f", "o", "l", "i", "o", ":", " ">>

\* the rocket emoji U+1F680, one character of the template literal
Rocket == "U+1F680"

\* server.js mailOptions.subject: `<rocket> Portfolio: ${subject}`
mailSubject(subject) == <<Rocket, " ">> \o PortfolioPrefix \o subject.s

\* api/contact.js mailOptions.subject: `Portfolio: ${subject}`
mailSubjectServerless(subject) == PortfolioPrefix \o subject.s

\* ------------------------------------------------------------------------
\* The page in the browser (script.js), as loaded
\* ------------------------------------------------------------------------
NoRender == [impl |-> "none"]

\* the four inputs, empty
EmptyForm == Submission(Str(<<>>), Str(<<>>), Str(<<>>), Str(<<>>))

NoToast == [type |-> "none", text |-> <<>>]

\* The form with its four inputs and DOM.submitBtn, the form's submit button.
\* The styling classes validateField puts on the inputs are left out.
FormInit ==
    [ values   |-> EmptyForm,   \* input.value of #name, #email, #subject, #message
      disabled |-> FALSE,       \* DOM.submitBtn.disabled
      loading  |-> FALSE,       \* DOM.submitBtn.classList has 'loading'
      pc       |-> "idle",      \* submit handler: idle, awaitFetch, awaitJson
      data     |-> NoInput,     \* body of the request in flight
      response |-> NoBody,      \* the response fetch resolved with
      fetches  |-> 0,           \* calls of fetch
      toast    |-> NoToast,     \* the last Toast.show
      last     |-> "load" ]     \* what the last step on the form was

\* the menu closed: no 'active' class, aria-expanded not yet set, body
\* scrolling as the style sheet has it
MenuInit ==
    [ toggleActive |-> FALSE,    \* DOM.navToggle.classList has 'active'
      menuActive   |-> FALSE,    \* DOM.navMenu.classList has 'active'
      ariaExpanded |-> "unset",  \* DOM.navToggle aria-expanded
      overflow     |-> "" ]      \* document.body.style.overflow

\* 'QA Analyst & Frontend Developer'
HeroSubtitleText ==
    << "Q", "A", " ", "A", "n", "a", "l", "y", "s", "t", " ", "&", " ",
       "F", "r", "o", "n", "t", "e", "n", "d", " ", "D", "e", "v", "e",
       "l", "o", "p", "e", "r" >>

\* 'I combine quality assurance and development to build reliable,
\* user-focused digital experiences.'
HeroDescriptionText ==
    << "I", " ", "c", "o", "m", "b", "i", "n", "e", " ", "q", "u", "a",
       "l", "i", "t", "y", " ", "a", "s", "s", "u", "r", "a", "n", "c",
       "e", " ", "a", "n", "d", " ", "d", "e", "v", "e", "l", "o", "p",
       "m", "e", "n", "t", " ", "t", "o", " ", "b", "u", "i", "l", "d",
       " ", "r", "e", "l", "i", "a", "b", "l", "e", ",", " ", "u", "s",
       "e", "r", "-", "f", "o", "c", "u", "s", "e", "d", " ", "d", "i",
       "g", "i", "t", "a", "l", " ", "e", "x", "p", "e", "r", "i", "e",
       "n", "c", "e", "s", "." >>

\* TypewriterAnimation.texts
texts ==
    << [id |-> "heroSubtitle", text |-> HeroSubtitleText],
       [id |-> "heroDescription", text |-> HeroDescriptionText] >>

TextIds == {texts[i].id : i \in 1..Len(texts)}

\* the typewriter when the page has loaded, `present` saying which of the
\* elements the document has
TyperLoaded(present) ==
    [ present          |-> present,
      innerHTML        |-> [id \in TextIds |-> <<>>],  \* text the element shows
      currentTextIndex |-> 0,
      charIndex        |-> 0,
      timer            |-> "init" ]   \* the pending setTimeout, or "none"

TyperInit == TyperLoaded([id \in TextIds |-> TRUE])

PageInit ==
    /\ form = FormInit
    /\ menu = MenuInit
    /\ typer = TyperInit

\* ------------------------------------------------------------------------
\* Start-up of server.js
\* ------------------------------------------------------------------------
Init ==
    /\ env \in Envs
    /\ transporter = IF UsesCredentials(env) THEN "auth" ELSE "null"
    /\ boot = IF UsesCredentials(env) THEN "verifying" ELSE "provisioning"
    /\ log = <<>>
    /\ req = [r \in Requests |-> IdleReq]
    /\ vin = NoInput
    /\ vout = NoResult
    /\ rendered = NoRender
    /\ PageInit

\* transporter.verify callback, no error
VerifyOk ==
    /\ boot = "verifying"
    /\ boot' = "ready"
    /\ UNCHANGED <<rendered, browser, env, transporter, log, req, vin, vout>>

\* transporter.verify callback with an error: setupTestEmail() is called and
\* suspends at createTestAccount
VerifyFail ==
    /\ boot = "verifying"
    /\ boot' = "provisioning"
    /\ UNCHANGED <<rendered, browser, env, transporter, log, req, vin, vout>>

\* setupTestEmail: createTestAccount resolved
TestAccountOk ==
    /\ boot = "provisioning"
    /\ transporter' = "test"
    /\ boot' = "ready"
    /\ UNCHANGED <<rendered, browser, env, log, req, vin, vout>>

\* setupTestEmail: createTestAccount rejected, caught and logged
TestAccountFail ==
    /\ boot = "provisioning"
    /\ boot' = "failed"
    /\ UNCHANGED <<rendered, browser, env, transporter, log, req, vin, vout>>

\* ------------------------------------------------------------------------
\* Request handlers
\* ------------------------------------------------------------------------
\* request ids are handed out in order of arrival
CanStart(r) ==
    /\ req[r].pc = "idle"
    /\ \A q \in 1..(r - 1) : req[q].pc # "idle"

Finish(rec, status, body) ==
    [rec EXCEPT !.pc = "done", !.status = status, !.body = body]

\* a handler without its try/catch: the error escapes, no response is sent
CaughtEscapes(rec, err) == [rec EXCEPT !.pc = "crashed", !.errDetail = err]

\* the catch block of either handler
Caught(rec, err) ==
    Finish([rec EXCEPT !.errDetail = err], 500, FailureBody(err))

\* server.js app.post('/api/contact'), up to `await transporter.sendMail`
ExpressContact(r, in, ioOk) ==
    /\ CanStart(r)
    /\ LET v    == Validate(in)
           rec  == [IdleReq EXCEPT !.handler = "express", !.method = "POST",
                                   !.path = ApiContact,
                                   !.input = in, !.verdict = Verdict(v),
                                   !.errors = v.errors]
           save == saveSubmissionToFile(log, r, in, ioOk)
           kept == [rec EXCEPT !.logged = save.logged]
       IN  IF v.threw
           THEN /\ req' = [req EXCEPT ![r] = Caught(rec, "TypeError")]
                /\ log' = log
           ELSE IF HasErrors(v.errors)
           THEN /\ req' = [req EXCEPT ![r] =
                              Finish(rec, 400, RejectedBody(v.errors))]
                /\ log' = log
           ELSE /\ log' = save.file
                /\ req' = [req EXCEPT ![r] =
                      IF save.threw THEN Caught(kept, "EIO")
                      ELSE IF transporter = "null"
                      THEN Finish(kept, 200, SuccessBody)
                      ELSE IF generateEmailTemplateThrows(in)
                      THEN Caught([kept EXCEPT !.transport = transporter],
                                  "TypeError")
                      ELSE [kept EXCEPT !.pc = "awaitSend",
                                        !.transport = transporter,
                                        !.mailSubject = mailSubject(in.subject),
                                        !.mailTo = mailTo(env),
                                        !.sends = @ + 1]]
    /\ UNCHANGED <<rendered, browser, env, transporter, boot, vin, vout>>

\* server.js: sendMail resolved
ExpressSendOk(r) ==
    /\ req[r].handler = "express"
    /\ req[r].pc = "awaitSend"
    /\ req' = [req EXCEPT ![r] =
                  Finish([@ EXCEPT !.sendResult = "ok"], 200, SuccessBody)]
    /\ UNCHANGED <<rendered, browser, env, transporter, boot, log, vin, vout>>

\* server.js: sendMail rejected
ExpressSendFail(r, err) ==
    /\ req[r].handler = "express"
    /\ req[r].pc = "awaitSend"
    /\ req' = [req EXCEPT ![r] = Caught([@ EXCEPT !.sendResult = "fail"], err)]
    /\ UNCHANGED <<rendered, browser, env, transporter, boot, log, vin, vout>>

\* api/contact.js: mailOptions and the sendMail call, with a transporter
ServerlessSend(rec, in, tr) ==
    IF generateEmailTemplateThrows(in)
    THEN Caught([rec EXCEPT !.transport = tr], "TypeError")
    ELSE [rec EXCEPT !.pc = "awaitSend", !.transport = tr,
                     !.mailSubject = mailSubjectServerless(in.subject),
                     !.mailTo = mailToServerless(env),
                     !.sends = @ + 1]

\* a handler that never takes the OPTIONS branch
IsPreflightNever(method) == FALSE

\* api/contact.js: `req.method === 'OPTIONS'`
IsPreflight(method) == method = "OPTIONS"

\* api/contact.js module.exports, up to its first await
ServerlessContact(r, method, in) ==
    /\ CanStart(r)
    /\ LET v   == ValidateServerless(in)
           met == [IdleReq EXCEPT !.handler = "serverless", !.method = method,
                                  !.path = ApiContact]
           rec == [met EXCEPT !.input = in, !.verdict = Verdict(v),
                              !.errors = v.errors]
       IN  req' = [req EXCEPT ![r] =
               IF IsPreflight(method) THEN Finish(met, 200, EmptyBody)
               ELSE IF method # "POST"
               THEN Finish(met, 405, MethodNotAllowedBody)
               ELSE IF v.threw THEN Caught(rec, "TypeError")
               ELSE IF HasErrors(v.errors)
               THEN Finish(rec, 400, RejectedBody(v.errors))
               ELSE IF UsesCredentialsServerless(env)
               THEN ServerlessSend(rec, in, "auth")
               ELSE [rec EXCEPT !.pc = "awaitAccount"]]
    /\ UNCHANGED <<rendered, browser, env, transporter, boot, log, vin, vout>>

\* api/contact.js: createTestAccount resolved
ServerlessAccountOk(r) ==
    /\ req[r].pc = "awaitAccount"
    /\ req' = [req EXCEPT ![r] = ServerlessSend(@, @.input, "test")]
    /\ UNCHANGED <<rendered, browser, env, transporter, boot, log, vin, vout>>

\* api/contact.js: createTestAccount rejected
ServerlessAccountFail(r, err) ==
    /\ req[r].pc = "awaitAccount"
    /\ req' = [req EXCEPT ![r] = Caught(@, err)]
    /\ UNCHANGED <<rendered, browser, env, transporter, boot, log, vin, vout>>

\* api/contact.js: sendMail resolved
ServerlessSendOk(r) ==
    /\ req[r].handler = "serverless"
    /\ req[r].pc = "awaitSend"
    /\ req' = [req EXCEPT ![r] =
                  Finish([@ EXCEPT !.sendResult = "ok"], 200, SuccessBody)]
    /\ UNCHANGED <<rendered, browser, env, transporter, boot, log, vin, vout>>

\* api/contact.js: sendMail rejected
ServerlessSendFail(r, err) ==
    /\ req[r].handler = "serverless"
    /\ req[r].pc = "awaitSend"
    /\ req' = [req EXCEPT ![r] = Caught([@ EXCEPT !.sendResult = "fail"], err)]
    /\ UNCHANGED <<rendered, browser, env, transporter, boot, log, vin, vout>>

\* server.js: every route but app.post('/api/contact'), in registration
\* order.  express.static finds no file for the paths of Paths other than
\* "/", where it serves the same index.html as app.get('/').
ExpressRoute(r, method, path) ==
    /\ CanStart(r)
    /\ ~(method = "POST" /\ path = ApiContact)
    /\ LET rec == [IdleReq EXCEPT !.handler = "express", !.method = method,
                                  !.path = path]
       IN  req' = [req EXCEPT ![r] =
               IF method = "GET" /\ path = ApiHealth
               THEN Finish([rec EXCEPT !.emailConfigured =
                                IF transporter # "null" THEN "true" ELSE "false"],
                           200, HealthBody)
               ELSE IF method = "GET" /\ path = ApiProjects
               THEN Finish(rec, 200, ProjectsBody)
               ELSE IF method = "GET" /\ path = Root
               THEN Finish(rec, 200, IndexPage)
               ELSE IF method = "GET"
               THEN IF StartsWithApi(path)
                    THEN Finish(rec, 404, NotFoundBody)
                    ELSE Finish(rec, 200, IndexPage)
               ELSE Finish(rec, 404, DefaultNotFoundBody)]
    /\ UNCHANGED <<rendered, browser, env, transporter, boot, log, vin, vout>>

\* the serverless health handler: the same answer to every method
ServerlessHealth(r, method) ==
    /\ CanStart(r)
    /\ req' = [req EXCEPT ![r] =
                  Finish([IdleReq EXCEPT !.handler = "serverless",
                                         !.method = method, !.path = ApiHealth],
                         200, HealthBody)]
    /\ UNCHANGED <<rendered, browser, env, transporter, boot, log, vin, vout>>

Next ==
    \/ VerifyOk
    \/ VerifyFail
    \/ TestAccountOk
    \/ TestAccountFail
    \/ \E r \in Requests, in \in Bodies, ioOk \in BOOLEAN :
          ExpressContact(r, in, ioOk)
    \/ \E r \in Requests : ExpressSendOk(r)
    \/ \E r \in Requests, err \in ErrDetails : ExpressSendFail(r, err)
    \/ \E r \in Requests, method \in Methods, in \in Bodies :
          ServerlessContact(r, method, in)
    \/ \E r \in Requests : ServerlessAccountOk(r)
    \/ \E r \in Requests, err \in ErrDetails : ServerlessAccountFail(r, err)
    \/ \E r \in Requests : ServerlessSendOk(r)
    \/ \E r \in Requests, err \in ErrDetails : ServerlessSendFail(r, err)

Spec == Init /\ [][Next]_vars

\* Every pending callback or promise settles: transporter.verify calls back,
\* createTestAccount and sendMail resolve or reject (the mail library gives
\* up on a dead connection).  No outcome is preferred over the other.
SpecFair ==
    /\ Init
    /\ [][Next]_vars
    /\ WF_vars(VerifyOk \/ VerifyFail)
    /\ WF_vars(TestAccountOk \/ TestAccountFail)
    /\ \A r \in Requests :
          /\ WF_vars(ExpressSendOk(r)
                        \/ \E err \in ErrDetails : ExpressSendFail(r, err))
          /\ WF_vars(ServerlessAccountOk(r)
                        \/ \E err \in ErrDetails : ServerlessAccountFail(r, err))
          /\ WF_vars(ServerlessSendOk(r)
                        \/ \E err \in ErrDetails : ServerlessSendFail(r, err))

\* The pipeline in every configuration of EMAIL_USER, EMAIL_PASS and EMAIL_TO
InitMail ==
    /\ env \in EnvsMail
    /\ transporter = IF UsesCredentials(env) THEN "auth" ELSE "null"
    /\ boot = IF UsesCredentials(env) THEN "verifying" ELSE "provisioning"
    /\ log = <<>>
    /\ req = [r \in Requests |-> IdleReq]
    /\ vin = NoInput
    /\ vout = NoResult
    /\ rendered = NoRender
    /\ PageInit

SpecMail == InitMail /\ [][Next]_vars

\* Routing on its own: the start-up of server.js, its routes other than
\* POST /api/contact, and the serverless handlers reached with other methods
NextRoutes ==
    \/ VerifyOk
    \/ VerifyFail
    \/ TestAccountOk
    \/ TestAccountFail
    \/ \E r \in Requests, method \in RouteMethods, path \in Paths :
          ExpressRoute(r, method, path)
    \/ \E r \in Requests, method \in {"GET", "POST"} :
          ServerlessHealth(r, method)
    \/ \E r \in Requests, method \in Methods \ {"POST"} :
          ServerlessContact(r, method, NoInput)

SpecRoutes == Init /\ [][NextRoutes]_vars

\* ------------------------------------------------------------------------
\* The contact form in the browser (script.js FormHandler)
\* ------------------------------------------------------------------------
FormNames == {<<>>, Rep("n", MinNameLen - 1), Rep("n", MinNameLen)}

FormEmails == {<<>>, GoodEmail}

FormSubjects == {<<>>, Rep("s", MinSubjectLen)}

FormMessages == {<<>>, Rep("m", MinMessageLen)}

\* JSON null: response.json() resolves, `result.success` is a TypeError
NullBody == [kind |-> "null", success |-> FALSE, message |-> "", errors |-> <<>>]

\* { success: true } with no message
BareSuccessBody ==
    [kind |-> "json", success |-> TRUE, message |-> "", errors |-> <<>>]

\* what a server may answer the fetch with
ResponseBodies ==
    { SuccessBody, BareSuccessBody, RejectedBody(<<ErrorMessages[1]>>),
      FailureBody("EAUTH"), NotFoundBody, DefaultNotFoundBody, EmptyBody,
      NullBody }

\* setLoadingState that only ever switches the loading state on
setLoadingStateOnOnly(f, isLoading) ==
    IF isLoading THEN [f EXCEPT !.loading = TRUE, !.disabled = TRUE] ELSE f

\* FormHandler.setLoadingState
setLoadingState(f, isLoading) ==
    IF isLoading
    THEN [f EXCEPT !.loading = TRUE, !.disabled = TRUE]
    ELSE [f EXCEPT !.loading = FALSE, !.disabled = FALSE]

\* a test that takes every parsed response for a success
reportsSuccessAlways(result) == TRUE

\* `if (result.success)` of the submit listener
reportsSuccess(result) == result.success

\* Toast.show(message, type)
Toast(f, text, type) == [f EXCEPT !.toast = [type |-> type, text |-> text]]

\* the user types into an input
Edit ==
    /\ \E n \in FormNames, e \in FormEmails, s \in FormSubjects,
          m \in FormMessages :
          /\ Cardinality({k \in 1..4 :
                 <<n, e, s, m>>[k] #
                    << form.values.name.s, form.values.email.s,
                       form.values.subject.s, form.values.message.s >>[k]}) = 1
          /\ form' = [form EXCEPT !.values = Submission(Str(n), Str(e), Str(s), Str(m)),
                                  !.last = "edit"]
    /\ UNCHANGED <<rendered, menu, typer, env, transporter, boot, log, req,
                   vin, vout>>

\* the submit listener, up to `await fetch(...)`.  A disabled submit button
\* lets the browser fire no submit event.
Submit ==
    /\ ~form.disabled
    /\ IF ~validateForm(form.values)
       THEN form' = [Toast(form, <<"Please fill in all fields correctly">>,
                           "error") EXCEPT !.last = "invalid"]
       ELSE /\ form.fetches < MaxSubmits
            /\ form' = [setLoadingState(form, TRUE) EXCEPT
                            !.pc = "awaitFetch", !.data = form.values,
                            !.fetches = @ + 1, !.last = "submit"]
    /\ UNCHANGED <<rendered, menu, typer, env, transporter, boot, log, req,
                   vin, vout>>

\* catch and finally of the submit listener
NetworkError(f, why) ==
    [setLoadingState(Toast(f, <<"Network error. Please try again later.">>,
                           "error"), FALSE)
        EXCEPT !.pc = "idle", !.data = NoInput, !.response = NoBody,
               !.last = why]

\* fetch rejected
FetchRejects ==
    /\ form.pc = "awaitFetch"
    /\ form' = NetworkError(form, "networkError")
    /\ UNCHANGED <<rendered, menu, typer, env, transporter, boot, log, req,
                   vin, vout>>

\* fetch resolved with a response; the listener awaits response.json()
FetchResolves(body) ==
    /\ form.pc = "awaitFetch"
    /\ form' = [form EXCEPT !.pc = "awaitJson", !.response = body]
    /\ UNCHANGED <<rendered, menu, typer, env, transporter, boot, log, req,
                   vin, vout>>

\* the listener from `result = await response.json()` to the end
JsonSettles ==
    /\ form.pc = "awaitJson"
    /\ LET result == form.response
           done(f, why) ==
               [setLoadingState(f, FALSE) EXCEPT
                   !.pc = "idle", !.data = NoInput, !.response = NoBody,
                   !.last = why]
       IN  form' =
             IF result.kind \notin {"json", "null"}
             THEN NetworkError(form, "unparsable")
             ELSE IF result.kind = "null"
             THEN NetworkError(form, "unparsable")
             ELSE IF reportsSuccess(result)
             THEN done([Toast(form,
                              IF result.message # "" THEN <<result.message>>
                              ELSE <<"Message sent successfully!">>,
                              "success")
                           EXCEPT !.values = EmptyForm], "success")
             ELSE done(Toast(form,
                             IF result.errors # <<>> THEN result.errors
                             ELSE IF result.message # "" THEN <<result.message>>
                             ELSE <<"Failed to send message">>,
                             "error"), "failure")
    /\ UNCHANGED <<rendered, menu, typer, env, transporter, boot, log, req,
                   vin, vout>>

\* ------------------------------------------------------------------------
\* The mobile menu (script.js Navigation.setupMobileMenu)
\* ------------------------------------------------------------------------
\* click on DOM.navToggle
ToggleClick ==
    /\ menu' = [menu EXCEPT
                   !.toggleActive = ~menu.toggleActive,
                   !.menuActive = ~menu.menuActive,
                   !.ariaExpanded = IF ~menu.toggleActive THEN "true" ELSE "false",
                   !.overflow = IF ~menu.menuActive THEN "hidden" ELSE ""]
    /\ UNCHANGED <<rendered, form, typer, env, transporter, boot, log, req,
                   vin, vout>>

\* a link handler that leaves the page locked
NavLinkClickKeepsLock ==
    /\ menu' = [menu EXCEPT !.toggleActive = FALSE, !.menuActive = FALSE]
    /\ UNCHANGED <<rendered, form, typer, env, transporter, boot, log, req,
                   vin, vout>>

\* click on one of DOM.navLinks
NavLinkClick ==
    /\ menu' = [menu EXCEPT !.toggleActive = FALSE, !.menuActive = FALSE,
                            !.overflow = ""]
    /\ UNCHANGED <<rendered, form, typer, env, transporter, boot, log, req,
                   vin, vout>>

\* keydown on the document
KeyDown(key) ==
    /\ menu' = IF key = "Escape" /\ menu.menuActive
               THEN [menu EXCEPT !.toggleActive = FALSE, !.menuActive = FALSE,
                                 !.overflow = ""]
               ELSE menu
    /\ UNCHANGED <<rendered, form, typer, env, transporter, boot, log, req,
                   vin, vout>>

Keys == {"Escape", "Enter"}

\* ------------------------------------------------------------------------
\* The typewriter (script.js TypewriterAnimation)
\* ------------------------------------------------------------------------
IsLetter(c) ==
    c \in {"a", "b", "c", "d", "e", "f", "g", "h", "i", "j", "k", "l", "m",
           "n", "o", "p", "q", "r", "s", "t", "u", "v", "w", "x", "y", "z",
           "A", "B", "C", "D", "E", "F", "G", "H", "I", "J", "K", "L", "M",
           "N", "O", "P", "Q", "R", "S", "T", "U", "V", "W", "X", "Y", "Z"}

StartsWith(s, p) == Len(s) >= Len(p) /\ SubSeq(s, 1, Len(p)) = p

\* the text an element shows after `element.innerHTML = html`: a character
\* reference is one character, a tag shows nothing, a lone & or < is itself
RECURSIVE innerHTML(_)
innerHTML(html) ==
    LET marks == {k \in 1..Len(html) : html[k] \in {"&", "<"}}
    IN  IF marks = {} THEN html
        ELSE
          LET k == CHOOSE k \in marks : \A j \in marks : k <= j
              before == SubSeq(html, 1, k - 1)
              rest == SubSeq(html, k, Len(html))
          IN  IF \E c \in HtmlSpecial : StartsWith(rest, map(c))
              THEN LET c == CHOOSE c \in HtmlSpecial : StartsWith(rest, map(c))
                   IN  before \o <<c>> \o
                       innerHTML(SubSeq(rest, Len(map(c)) + 1, Len(rest)))
              ELSE IF /\ rest[1] = "<"
                      /\ Len(rest) >= 2
                      /\ (IsLetter(rest[2]) \/ rest[2] = "/")
              THEN IF \E g \in 1..Len(rest) : rest[g] = ">"
                   THEN LET g == CHOOSE g \in 1..Len(rest) :
                                   /\ rest[g] = ">"
                                   /\ \A j \in 1..(g - 1) : rest[j] # ">"
                        IN  before \o innerHTML(SubSeq(rest, g + 1, Len(rest)))
                   ELSE before
              ELSE before \o <<rest[1]>> \o innerHTML(Tail(rest))

\* substring that stops one character short
displayTextShort(text, charIndex) == SubSeq(text, 1, charIndex)

\* text.substring(0, charIndex + 1)
displayText(text, charIndex) == SubSeq(text, 1, charIndex + 1)

\* type() inside typeText, with the callback typeNextText hands it
type(t) ==
    LET config == texts[t.currentTextIndex + 1]
    IN  IF t.charIndex < Len(config.text)
        THEN [t EXCEPT
                 !.innerHTML[config.id] =
                     innerHTML(displayText(config.text, t.charIndex)),
                 !.charIndex = @ + 1,
                 !.timer = "type"]
        ELSE [t EXCEPT !.currentTextIndex = @ + 1, !.timer = "typeNextText"]

\* typeText: charIndex = 0, then the first type() at once
typeText(t) == type([t EXCEPT !.charIndex = 0])

\* TypewriterAnimation.typeNextText
RECURSIVE typeNextText(_)
typeNextText(t) ==
    IF t.currentTextIndex >= Len(texts)
    THEN [t EXCEPT !.timer = "none"]
    ELSE IF ~t.present[texts[t.currentTextIndex + 1].id]
    THEN typeNextText([t EXCEPT !.currentTextIndex = @ + 1])
    ELSE typeText(t)

\* the timeout set by init fires
TimerInit ==
    /\ typer.timer = "init"
    /\ typer' = typeNextText(typer)
    /\ UNCHANGED <<rendered, form, menu, env, transporter, boot, log, req,
                   vin, vout>>

\* the timeout set by type() fires
TimerType ==
    /\ typer.timer = "type"
    /\ typer' = type(typer)
    /\ UNCHANGED <<rendered, form, menu, env, transporter, boot, log, req,
                   vin, vout>>

\* the timeout set by the callback fires
TimerNextText ==
    /\ typer.timer = "typeNextText"
    /\ typer' = typeNextText(typer)
    /\ UNCHANGED <<rendered, form, menu, env, transporter, boot, log, req,
                   vin, vout>>

\* the page loads with any of the two elements there or not
InitTypewriter ==
    /\ env = [user |-> FALSE, pass |-> "unset", to |-> FALSE]
    /\ transporter = "null"
    /\ boot = "provisioning"
    /\ log = <<>>
    /\ req = [r \in Requests |-> IdleReq]
    /\ vin = NoInput
    /\ vout = NoResult
    /\ rendered = NoRender
    /\ form = FormInit
    /\ menu = MenuInit
    /\ typer \in {TyperLoaded(p) : p \in [TextIds -> BOOLEAN]}

NextTypewriter == TimerInit \/ TimerType \/ TimerNextText

\* every timeout that was set fires
SpecTypewriter ==
    /\ InitTypewriter
    /\ [][NextTypewriter]_vars
    /\ WF_vars(TimerInit)
    /\ WF_vars(TimerType)
    /\ WF_vars(TimerNextText)

\* ------------------------------------------------------------------------
\* The page: the form and the menu, used as the visitor likes
\* ------------------------------------------------------------------------
InitPage ==
    /\ env = [user |-> FALSE, pass |-> "unset", to |-> FALSE]
    /\ transporter = "null"
    /\ boot = "provisioning"
    /\ log = <<>>
    /\ req = [r \in Requests |-> IdleReq]
    /\ vin = NoInput
    /\ vout = NoResult
    /\ rendered = NoRender
    /\ PageInit

NextPage ==
    \/ Edit
    \/ Submit
    \/ FetchRejects
    \/ \E body \in ResponseBodies : FetchResolves(body)
    \/ JsonSettles
    \/ ToggleClick
    \/ NavLinkClick
    \/ \E key \in Keys : KeyDown(key)

SpecPage == InitPage /\ [][NextPage]_vars

\* ------------------------------------------------------------------------
\* Rendering on its own: submissions that pass validation, both handlers
\* ------------------------------------------------------------------------
HtmlChars == HtmlSpecial \cup {"a", " "}

ScriptTag == <<"<", "s", "c", "r", "i", "p", "t", ">">>

RenderNames ==
    {Str(s) : s \in {t \in StringsUpTo(HtmlChars, MaxHtmlLen) :
                        Len(Trim(t)) >= MinNameLen}}

RenderEmails ==
    { Str(ScriptTag \o GoodEmail),
      Str(<<"<", "'", ">", "@", "\"", ".", "&">>), Arr(GoodEmail) }

RenderSubjects ==
    { Str(ScriptTag), Str(<<"&", "a", "m", "p", ";">>) }

RenderMessages ==
    { Str(ScriptTag \o Rep("m", MinMessageLen)),
      Str(<<"\"", "'">> \o Rep("&", MinMessageLen)) }

RenderInputs ==
    [name : RenderNames, email : RenderEmails,
     subject : RenderSubjects, message : RenderMessages]

InitRender ==
    /\ env = [user |-> FALSE, pass |-> "unset", to |-> FALSE]
    /\ transporter = "null"
    /\ boot = "provisioning"
    /\ log = <<>>
    /\ req = [r \in Requests |-> IdleReq]
    /\ vin \in RenderInputs
    /\ vout = NoResult
    /\ rendered = NoRender
    /\ PageInit

\* server.js mailOptions.html and mailOptions.text
RenderExpress ==
    /\ rendered = NoRender
    /\ rendered' =
          IF generateEmailTemplateThrows(vin)
          THEN [impl |-> "express", threw |-> TRUE, html |-> <<>>, text |-> <<>>]
          ELSE [impl |-> "express", threw |-> FALSE,
                html |-> generateEmailTemplate(vin),
                text |-> generatePlainTextEmail(vin)]
    /\ UNCHANGED <<browser, env, transporter, boot, log, req, vin, vout>>

\* api/contact.js mailOptions.html and mailOptions.text
RenderServerless ==
    /\ rendered = NoRender
    /\ rendered' =
          IF generateEmailTemplateThrows(vin)
          THEN [impl |-> "serverless", threw |-> TRUE, html |-> <<>>,
                text |-> <<>>]
          ELSE [impl |-> "serverless", threw |-> FALSE,
                html |-> generateEmailTemplate(vin),
                text |-> plainTextServerless(vin)]
    /\ UNCHANGED <<browser, env, transporter, boot, log, req, vin, vout>>

NextRender == RenderExpress \/ RenderServerless

SpecRender == InitRender /\ [][NextRender]_vars

\* ------------------------------------------------------------------------
\* Validation on its own: every submission of ValInputs, both handlers
\* ------------------------------------------------------------------------
InitValidate ==
    /\ env = [user |-> FALSE, pass |-> "unset", to |-> FALSE]
    /\ transporter = "null"
    /\ boot = "provisioning"
    /\ log = <<>>
    /\ req = [r \in Requests |-> IdleReq]
    /\ vin \in ValInputs
    /\ vout = NoResult
    /\ rendered = NoRender
    /\ PageInit

ApplyValidate ==
    /\ vout = NoResult
    /\ vout' = [impl |-> "express", threw |-> Validate(vin).threw,
                errors |-> Validate(vin).errors]
    /\ UNCHANGED <<rendered, browser, env, transporter, boot, log, req, vin>>

ApplyValidateServerless ==
    /\ vout = NoResult
    /\ vout' = [impl |-> "serverless", threw |-> ValidateServerless(vin).threw,
                errors |-> ValidateServerless(vin).errors]
    /\ UNCHANGED <<rendered, browser, env, transporter, boot, log, req, vin>>

\* script.js validateForm on the same values typed into the form
ApplyValidators ==
    /\ vout = NoResult
    /\ IsString(vin.name) /\ IsString(vin.email)
    /\ IsString(vin.subject) /\ IsString(vin.message)
    /\ vout' = [impl |-> "browser", threw |-> FALSE,
                errors |-> validateFormErrors(vin)]
    /\ UNCHANGED <<rendered, browser, env, transporter, boot, log, req, vin>>

NextValidate == ApplyValidate \/ ApplyValidateServerless \/ ApplyValidators

SpecValidate == InitValidate /\ [][NextValidate]_vars

\* ------------------------------------------------------------------------
\* Properties
\* ------------------------------------------------------------------------
Positions(s, chars) == {k \in 1..Len(s) : s[k] \in chars}

SetMin(S) == CHOOSE x \in S : \A y \in S : x <= y

SetMax(S) == CHOOSE x \in S : \A y \in S : x >= y

\* length of what is left between the first and the last non-blank character
TrimmedLength(s) ==
    LET ink == (1..Len(s)) \ Positions(s, Whitespace)
    IN  IF ink = {} THEN 0 ELSE SetMax(ink) - SetMin(ink) + 1

\* local@domain.tld: no blank, exactly one "@" and not in front, and after
\* it a "." that is neither the first nor the last character of that part
MatchesEmailPattern(s) ==
    /\ Positions(s, Whitespace) = {}
    /\ Cardinality(Positions(s, {"@"})) = 1
    /\ LET at == SetMin(Positions(s, {"@"}))
       IN  /\ at > 1
           /\ \E d \in Positions(s, {"."}) : at + 1 < d /\ d < Len(s)

AllStrings(in) ==
    IsString(in.name) /\ IsString(in.email) /\ IsString(in.subject)
        /\ IsString(in.message)

ShouldAccept(in) ==
    /\ TrimmedLength(in.name.s) >= 2
    /\ MatchesEmailPattern(in.email.s)
    /\ TrimmedLength(in.subject.s) >= 3
    /\ TrimmedLength(in.message.s) >= 20

Accepted(res) == ~res.threw /\ res.errors = <<>>

\* C1: a submission of four strings is accepted by validation (of either
\* handler) if and only if trim(name) has at least 2 characters, the email
\* has the shape local@domain.tld, trim(subject) has at least 3 characters
\* and trim(message) has at least 20.
C1_ValidIff ==
    (vout # NoResult /\ AllStrings(vin)) =>
        (Accepted(vout) <=> ShouldAccept(vin))

\* an accepted submission whose name, subject and message carry blanks around
\* them
C1_Witness ==
    /\ vout.impl = "express"
    /\ AllStrings(vin)
    /\ Accepted(vout)
    /\ Len(vin.name.s) > 2
    /\ Len(vin.subject.s) > 3
    /\ Len(vin.message.s) > 20

Done(r) == req[r].pc = "done"

Posted(r) == req[r].method = "POST"

BlocksOf(file, r) ==
    Cardinality({i \in 1..Len(file) :
                    file[i].req = r /\ file[i].field = "timestamp"})

NumBlocks(file) ==
    Cardinality({i \in 1..Len(file) : file[i].field = "timestamp"})

\* C2: a request whose validation ends with a non-empty error list is
\* answered 400 with that list, and the step that rejects it changes nothing
\* else: the log, the transporter and every other request stay as they were,
\* nothing is sent and no log write is attempted.
C2_RejectedNoEffect ==
    [][\A r \in Requests :
          (req'[r].verdict # "threw" /\ req'[r].errors # <<>>) =>
              /\ req'[r].pc = "done"
              /\ req'[r].status = 400
              /\ req'[r].body = RejectedBody(req'[r].errors)
              /\ req'[r].sends = 0
              /\ req'[r].logged = "no"
              /\ req'[r].transport = "none"
              /\ BlocksOf(log', r) = 0
              /\ req[r].pc = "idle" =>
                    /\ log' = log
                    /\ transporter' = transporter
                    /\ boot' = boot
                    /\ \A q \in Requests \ {r} : req'[q] = req[q]]_vars

\* scenario 2 was rejected with its three errors while another submission
\* had been logged before
C2_Witness ==
    \E r \in Requests :
        /\ req[r].input = Scenario2
        /\ req[r].status = 400
        /\ Len(req[r].body.errors) = 3
        /\ NumBlocks(log) = 1

\* C3: every valid submission has had sendMail invoked exactly once by the
\* time its response is given.
C3_SentExactlyOnce ==
    \A r \in Requests :
        (Done(r) /\ Posted(r) /\ req[r].verdict = "valid") => req[r].sends = 1

\* C4: the 200 {success:true} response is given if and only if the input
\* was valid, the message was handed to the transport and that send
\* succeeded.
C4_SuccessIffSent ==
    \A r \in Requests :
        (Done(r) /\ Posted(r)) =>
            ((req[r].status = 200 /\ req[r].body = SuccessBody) <=>
             (req[r].verdict = "valid" /\ req[r].sends = 1
                 /\ req[r].sendResult = "ok"))

\* C5: the log append precedes every send, and a failed send is answered
\* 500 with the generic body while the submission's log entry is in place.
C5_FailedSendLogged ==
    \A r \in Requests :
        /\ req[r].sends > 0 => req[r].logged # "no"
        /\ req[r].sendResult = "fail" =>
              /\ req[r].status = 500
              /\ req[r].body = FailureBody(req[r].errDetail)
              /\ req[r].logged = "ok" => BlocksOf(log, r) = 1

\* C6: any two 500 responses have the same status and body whatever error
\* was caught, and the body never carries the caught error.
C6_FailureBodyUniform ==
    \A r, q \in Requests :
        (req[r].status = 500 /\ req[q].status = 500) =>
            /\ req[r].body = req[q].body
            /\ req[r].body.message # req[r].errDetail

\* two failed sends with different error details
C6_Witness ==
    \E r, q \in Requests :
        /\ req[r].sendResult = "fail"
        /\ req[q].sendResult = "fail"
        /\ req[r].input = req[q].input
        /\ req[r].errDetail # req[q].errDetail
        /\ req[r].status = 500
        /\ req[q].status = 500

InvalidInput(in) == ~AllStrings(in) \/ ~ShouldAccept(in)

\* C7: a 500 response is given only after a failure of the transport (its
\* send or its provisioning), and every POST with a missing, invalid or
\* non-string field is answered 400 with a non-empty error list.
C7_Only500OnDeliveryFailure ==
    \A r \in Requests :
        (Done(r) /\ Posted(r)) =>
            /\ req[r].status = 500 => req[r].errDetail \in ErrDetails
            /\ InvalidInput(req[r].input) =>
                  (req[r].status = 400 /\ req[r].body.errors # <<>>)

\* C8: a submission whose log append failed is never answered 500 because of
\* it, and it ends exactly as a submission with the same input, transport
\* and send outcome whose append succeeded.
C8_LogFailureTransparent ==
    \A r \in Requests :
        req[r].logged = "failed" =>
            /\ req[r].status = 500 =>
                  (req[r].sendResult = "fail" \/ ~IsString(req[r].input.email))
            /\ \A q \in Requests :
                  ( /\ req[q].logged = "ok"
                    /\ req[q].handler = req[r].handler
                    /\ req[q].input = req[r].input
                    /\ req[q].pc = req[r].pc
                    /\ req[q].transport = req[r].transport
                    /\ req[q].sendResult = req[r].sendResult ) =>
                        /\ req[q].status = req[r].status
                        /\ req[q].body = req[r].body
                        /\ req[q].sends = req[r].sends

\* the append failed, the send was still made and succeeded, next to a
\* submission whose append succeeded
C8_Witness ==
    \E r, q \in Requests :
        /\ req[r].logged = "failed"
        /\ req[r].sends = 1
        /\ req[r].status = 200
        /\ req[q].logged = "ok"
        /\ req[q].input = req[r].input
        /\ req[q].status = 200

\* C9: the log holds one block for every submission that passed validation
\* (and whose append the file system accepted), and no other block.
C9_OneBlockPerAccepted ==
    /\ NumBlocks(log) =
          Cardinality({r \in Requests :
              Posted(r) /\ req[r].verdict = "valid" /\ req[r].logged # "failed"})
    /\ \A r \in Requests : req[r].verdict # "valid" => BlocksOf(log, r) = 0

\* C10: every step leaves the log as it was or appends exactly one whole
\* block of one request at its end.
C10_AppendOnlyWholeBlocks ==
    [][\/ log' = log
       \/ \E r \in Requests :
             /\ req[r].pc = "idle"
             /\ log' = log \o Block(r, req'[r].input)]_vars

\* two requests in flight at once, both logged, each block in one piece
C10_Witness ==
    /\ req[1].pc = "awaitSend"
    /\ req[2].pc = "awaitSend"
    /\ log = Block(1, req[1].input) \o Block(2, req[2].input)

Started(r) == req[r].pc # "idle"

\* C11: once a contact request has been taken up, the transporter that was
\* in place is never replaced by another one.
C11_TransportNeverSwapped ==
    [][((\E r \in Requests : Started(r)) /\ transporter # "null") =>
          transporter' = transporter]_vars

\* C12: a handler works with the authenticated transport exactly when
\* EMAIL_USER and EMAIL_PASS are both set and EMAIL_PASS is no placeholder;
\* in every other configuration only the test transport is ever selected.
C12_AuthIffRealCredentials ==
    LET real == env.user /\ env.pass = "real"
    IN  /\ transporter = "auth" => real
        /\ ~real => transporter \in {"null", "test"}
        /\ \A r \in Requests :
              /\ req[r].transport = "auth" => real
              /\ (req[r].handler = "serverless" /\ req[r].transport # "none") =>
                    (req[r].transport = "auth" <=> real)

\* C19: an OPTIONS request to the serverless contact handler is answered at
\* once with 200 and an empty body; nothing is validated, no transporter is
\* built, nothing is sent, and the step changes nothing but that request.
C19_PreflightShortCircuit ==
    [][\A r \in Requests :
          (req'[r].handler = "serverless" /\ req'[r].method = "OPTIONS") =>
              /\ req'[r].pc = "done"
              /\ req'[r].status = 200
              /\ req'[r].body = EmptyBody
              /\ req'[r].verdict = "none"
              /\ req'[r].transport = "none"
              /\ req'[r].sends = 0
              /\ req'[r].logged = "no"
              /\ req[r].pc = "idle" =>
                    /\ log' = log
                    /\ transporter' = transporter
                    /\ \A q \in Requests \ {r} : req'[q] = req[q]]_vars

\* a preflight answered while another request is waiting for its send
C19_Witness ==
    \E r, q \in Requests :
        /\ req[r].handler = "serverless"
        /\ req[r].method = "OPTIONS"
        /\ req[r].status = 200
        /\ req[q].pc = "awaitSend"

\* C20: the subject handed to the transport is "Portfolio: " followed by the
\* submitted subject, character for character.
C20_SubjectLine ==
    \A r \in Requests :
        req[r].sends > 0 =>
            req[r].mailSubject =
                <<"P", "o", "r", "t", "f", "o", "l", "i", "o", ":", " ">>
                    \o req[r].input.subject.s

SelfCheckFailed == boot = "provisioning" /\ transporter = "auth"

\* C13: after the authenticated transport has failed its start-up
\* self-check, the test transport eventually is the active one.
C13_FallbackReachesTest == SelfCheckFailed ~> (transporter = "test")

\* C14: a GET of /api/health is answered with 200 and an emailConfigured
\* field that is true exactly when a transporter exists at that moment.
C14_HealthReflectsTransport ==
    [][\A r \in Requests :
          (req[r].pc = "idle" /\ req'[r].pc = "done"
              /\ req'[r].method = "GET" /\ req'[r].path = ApiHealth) =>
              /\ req'[r].status = 200
              /\ req'[r].emailConfigured =
                    IF transporter # "null" THEN "true" ELSE "false"]_vars

\* C16: /api/contact reached with a method other than POST or OPTIONS is
\* answered with 405, and nothing is validated, logged or sent.
C16_OtherMethod405 ==
    \A r \in Requests :
        (Done(r) /\ req[r].path = ApiContact
            /\ req[r].method \notin {"POST", "OPTIONS"}) =>
            /\ req[r].status = 405
            /\ req[r].verdict = "none"
            /\ req[r].logged = "no"
            /\ req[r].sends = 0

\* C17: an unknown path under /api/ is answered, whatever the method, with
\* 404 and a JSON body {success: false, message}, never with a page.
C17_UnknownApi404Json ==
    \A r \in Requests :
        (Done(r) /\ req[r].path = ApiUnknown) =>
            /\ req[r].status = 404
            /\ req[r].body.kind = "json"
            /\ ~req[r].body.success
            /\ req[r].body.message # ""

\* C18: GET /api/skills is answered with a success response carrying data.
C18_SkillsServed ==
    \A r \in Requests :
        (Done(r) /\ req[r].method = "GET" /\ req[r].path = ApiSkills) =>
            /\ req[r].status = 200
            /\ req[r].body.kind = "json"
            /\ req[r].body.success

\* position of a request on its way to a response
Rank(pc) ==
    CASE pc = "idle" -> 0
      [] pc = "awaitAccount" -> 1
      [] pc = "awaitSend" -> 2
      [] OTHER -> 3

AnsweredJson(r) ==
    /\ Done(r)
    /\ req[r].body.kind = "json"
    /\ req[r].status \in {200, 400, 500}

\* the request waits for a promise, and the handler continues to a next
\* step whether the promise resolves or rejects
Awaiting(r) ==
    \/ /\ req[r].pc = "awaitAccount"
       /\ ENABLED ServerlessAccountOk(r)
       /\ \A err \in ErrDetails : ENABLED ServerlessAccountFail(r, err)
    \/ /\ req[r].pc = "awaitSend"
       /\ req[r].handler = "express"
       /\ ENABLED ExpressSendOk(r)
       /\ \A err \in ErrDetails : ENABLED ExpressSendFail(r, err)
    \/ /\ req[r].pc = "awaitSend"
       /\ req[r].handler = "serverless"
       /\ ENABLED ServerlessSendOk(r)
       /\ \A err \in ErrDetails : ENABLED ServerlessSendFail(r, err)

\* C15: a POST taken up by a contact handler is, at every moment, either
\* answered with a JSON response (200, 400 or 500) or waiting for a promise
\* both of whose outcomes the handler continues from, and every step of a
\* request moves it on towards its response: no path ends without one.
C15_AlwaysResponds ==
    /\ [](\A r \in Requests :
            (Started(r) /\ Posted(r)) => (AnsweredJson(r) \/ Awaiting(r)))
    /\ [][\A r \in Requests :
            req'[r] # req[r] => Rank(req'[r].pc) > Rank(req[r].pc)]_vars

\* responses given after a thrown TypeError and after a rejected send following
\* a failed log write
C15_Witness ==
    \E r, q \in Requests :
        /\ Done(r) /\ req[r].verdict = "threw" /\ req[r].status = 500
        /\ Done(q) /\ req[q].logged = "failed" /\ req[q].sendResult = "fail"
        /\ req[q].body.kind = "json"

UserPieces(body) ==
    {k \in 1..Len(body) : body[k].from \notin {"template", "clock"}}

\* the five entities, as written
Entities ==
    { <<"&", "a", "m", "p", ";">>, <<"&", "l", "t", ";">>,
      <<"&", "g", "t", ";">>, <<"&", "q", "u", "o", "t", ";">>,
      <<"&", "#", "0", "3", "9", ";">> }

EntityAt(t, k) ==
    \E e \in Entities :
        k + Len(e) - 1 <= Len(t) /\ SubSeq(t, k, k + Len(e) - 1) = e

\* the character an entity stands for
Decoded(e) ==
    CASE e[2] = "a" -> "&"
      [] e[2] = "l" -> "<"
      [] e[2] = "g" -> ">"
      [] e[2] = "q" -> "\""
      [] OTHER -> "'"

\* what a browser shows for escaped text: entities read back as characters
RECURSIVE Unescape(_)
Unescape(t) ==
    IF t = <<>> THEN <<>>
    ELSE IF EntityAt(t, 1)
    THEN LET e == CHOOSE x \in Entities :
                     Len(x) <= Len(t) /\ SubSeq(t, 1, Len(x)) = x
         IN  <<Decoded(e)>> \o Unescape(SubSeq(t, Len(e) + 1, Len(t)))
    ELSE <<Head(t)>> \o Unescape(Tail(t))

Contains(t, sub) ==
    \E k \in 1..(Len(t) - Len(sub) + 1) : SubSeq(t, k, k + Len(sub) - 1) = sub

\* the value of the submission a piece was rendered from
RawValue(in, f) ==
    CASE f = "name" -> in.name.s
      [] f = "email" -> in.email.s
      [] f = "subject" -> in.subject.s
      [] f = "message" -> in.message.s
      [] f = "firstName" ->
            SubSeq(in.name.s, 1,
                   SetMin(Positions(in.name.s, {" "}) \cup {Len(in.name.s) + 1}) - 1)

\* C21: in a rendered HTML body every piece that comes from the submission
\* (name, email three times, subject twice, message, first word of name)
\* holds none of < > " ' as such, every & in it starts one of the five
\* entities, it reads back as the submitted value, and it contains no
\* literal <script>.
C21_HtmlFieldsEscaped ==
    (rendered # NoRender /\ ~rendered.threw) =>
        /\ [k \in 1..Len(rendered.html) |-> rendered.html[k].from] =
              << "template", "clock", "template",
                 "template", "name", "template",
                 "template", "email", "template", "email", "template",
                 "template", "subject", "template",
                 "template", "message", "template",
                 "template", "email", "template", "subject", "template",
                 "firstName", "template" >>
        /\ \A k \in UserPieces(rendered.html) :
              LET t == rendered.html[k].text
              IN  /\ Positions(t, {"<", ">", "\"", "'"}) = {}
                  /\ \A p \in Positions(t, {"&"}) : EntityAt(t, p)
                  /\ Unescape(t) = RawValue(vin, rendered.html[k].from)
                  /\ ~Contains(t, ScriptTag)

\* a body rendered from a submission with <script> in three fields and
\* markup characters in the name
C21_Witness ==
    /\ rendered # NoRender
    /\ ~rendered.threw
    /\ Contains(vin.email.s, ScriptTag)
    /\ Contains(vin.subject.s, ScriptTag)
    /\ Contains(vin.message.s, ScriptTag)
    /\ Cardinality(Positions(vin.name.s, HtmlSpecial)) >= 2
    /\ Contains(rendered.text[5].text, ScriptTag)

\* the four checks, each judged on the text of its own field alone (a
\* missing field has no text)
FailingChecks(in) ==
    << TrimmedLength(in.name.s) < 2,
       ~MatchesEmailPattern(in.email.s),
       TrimmedLength(in.subject.s) < 3,
       TrimmedLength(in.message.s) < 20 >>

\* the messages of the failing checks, in the order name, email, subject,
\* message
ExpectedErrors(in) ==
    LET idx == SelectSeq(<<1, 2, 3, 4>>, LAMBDA k : FailingChecks(in)[k])
    IN  [n \in 1..Len(idx) |-> ErrorMessages[idx[n]]]

\* C23: validation runs all four checks whatever the others find and
\* returns the messages of the failing ones in the order name, email,
\* subject, message; the list is non-empty exactly when the submission is
\* rejected.
C23_AllChecksInOrder ==
    vout # NoResult =>
        /\ ~vout.threw
        /\ vout.errors = ExpectedErrors(vin)
        /\ Accepted(vout) <=> vout.errors = <<>>

\* C24: on a submission of four strings the browser's validators, the
\* Express route and the serverless handler agree on acceptance, and on
\* every submission the two server-side handlers give the same result, error
\* list included.
C24_ValidatorsAgree ==
    vout # NoResult =>
        /\ AllStrings(vin) =>
              /\ Accepted(vout) <=> validateForm(vin)
              /\ Accepted(vout) <=> Accepted(Validate(vin))
              /\ Accepted(vout) <=> Accepted(ValidateServerless(vin))
        /\ vout.impl \in {"express", "serverless"} =>
              /\ vout.threw = Validate(vin).threw
              /\ vout.errors = Validate(vin).errors
              /\ vout.threw = ValidateServerless(vin).threw
              /\ vout.errors = ValidateServerless(vin).errors

\* the browser rejects only the email of a form whose other fields carry
\* blanks around just enough characters
C24_Witness ==
    /\ vout.impl = "browser"
    /\ vout.errors = <<"Please enter a valid email address">>
    /\ Len(vin.name.s) > MinNameLen
    /\ Len(Trim(vin.name.s)) = MinNameLen
    /\ Len(Trim(vin.message.s)) = MinMessageLen
    /\ Validate(vin).errors = <<"Valid email address is required">>

\* every client-side check passes on the values in the form
AllChecksPass(in) == \A k \in 1..4 : ~FailingChecks(in)[k]

\* C26: a submit sends a request (with the form's values) only when every
\* client-side check passes on them; when one fails, no request is sent and
\* the button does not enter the loading state.
C26_FetchOnlyWhenValid ==
    [][ /\ form'.fetches # form.fetches =>
              /\ AllChecksPass(form.values)
              /\ form'.fetches = form.fetches + 1
              /\ form'.data = form.values
        /\ ((form'.loading /\ ~form.loading) \/ (form'.disabled /\ ~form.disabled))
              => AllChecksPass(form.values)
        /\ form'.last = "invalid" =>
              /\ ~AllChecksPass(form.values)
              /\ form'.fetches = form.fetches
              /\ ~form'.loading /\ ~form'.disabled /\ form'.pc = "idle" ]_vars

\* a request has gone out and come back, and a later submit of values that
\* fail a check was turned down
C26_Witness ==
    /\ form.last = "invalid"
    /\ form.fetches = 1
    /\ form.pc = "idle"

\* C27: the submit button is disabled and loading for as long as a validated
\* submission's request is outstanding, and is enabled and not loading
\* whenever none is: after a success, a failure the server reports, a
\* response that cannot be parsed and a network error alike.
C27_DisabledWhileInFlight ==
    /\ form.pc # "idle" => (form.disabled /\ form.loading /\ form.fetches > 0)
    /\ form.pc = "idle" => (~form.disabled /\ ~form.loading)

\* a response that is no JSON has come in and the button is enabled again
C27_Witness ==
    /\ form.last = "unparsable"
    /\ form.toast.text = <<"Network error. Please try again later.">>
    /\ ~form.disabled

\* C28: the submit listener changes the form's values only when the parsed
\* response reports success, and then empties them; a failed validation, a
\* failure the server reports, an unparsable response and a network error
\* leave them as they were.
C28_ResetOnlyOnSuccess ==
    [][ /\ (form'.values # form.values /\ form'.last # "edit") =>
              /\ form.pc = "awaitJson"
              /\ form.response.kind = "json"
              /\ form.response.success
              /\ form'.values = EmptyForm
        /\ form'.last \in {"invalid", "failure", "unparsable", "networkError"}
              => form'.values = form.values ]_vars

\* the server reported a failure and the visitor's text is still there
C28_Witness ==
    /\ form.last = "failure"
    /\ form.toast.type = "error"
    /\ AllChecksPass(form.values)

\* C29: the toggle and the menu are active together or not at all, and the
\* body's overflow is 'hidden' exactly when the menu is active.
C29_MenuInSync ==
    /\ menu.toggleActive = menu.menuActive
    /\ (menu.overflow = "hidden") <=> menu.menuActive
    /\ menu.overflow \in {"hidden", ""}

\* the menu was opened and closed again by a link or by Escape
C29_Witness ==
    /\ ~menu.menuActive
    /\ menu.ariaExpanded = "true"

IsPrefix(p, s) == Len(p) <= Len(s) /\ SubSeq(s, 1, Len(p)) = p

\* the typewriter has stopped and every element the page has shows its text
TypedOut ==
    /\ typer.timer = "none"
    /\ typer.currentTextIndex = Len(texts)
    /\ \A i \in 1..Len(texts) :
          typer.present[texts[i].id] => typer.innerHTML[texts[i].id] = texts[i].text

\* C30: the texts are typed in list order: a text before the current one is
\* fully shown if its element is there, the current one shows a prefix that
\* only grows, a later one has not been started; currentTextIndex never
\* exceeds the number of texts; and the typewriter comes to a stop with
\* every element that is there showing its full text.
C30_TypedInOrder ==
    /\ [](/\ typer.currentTextIndex \in 0..Len(texts)
          /\ \A i \in 1..Len(texts) :
                LET shown == typer.innerHTML[texts[i].id]
                IN  /\ i <= typer.currentTextIndex =>
                          shown = IF typer.present[texts[i].id]
                                  THEN texts[i].text ELSE <<>>
                    /\ i = typer.currentTextIndex + 1 =>
                          /\ IsPrefix(shown, texts[i].text)
                          /\ typer.timer = "type" => Len(shown) = typer.charIndex
                    /\ i > typer.currentTextIndex + 1 => shown = <<>>)
    /\ [][/\ typer'.currentTextIndex >= typer.currentTextIndex
          /\ \A id \in TextIds :
                IsPrefix(typer.innerHTML[id], typer'.innerHTML[id])]_vars
    /\ <>[]TypedOut

\* both elements are there, the first is fully typed and the second is
\* under way
C30_Witness ==
    /\ typer.present = [id \in TextIds |-> TRUE]
    /\ typer.currentTextIndex = 1
    /\ typer.timer = "type"
    /\ typer.innerHTML["heroSubtitle"] = HeroSubtitleText
    /\ Len(typer.innerHTML["heroDescription"]) = 40

\* C25: every message handed to a transport names a recipient: EMAIL_TO if
\* it is set, else EMAIL_USER, else a fixed default address.
C25_RecipientDefined ==
    \A r \in Requests :
        req[r].sends > 0 =>
            /\ req[r].mailTo \notin {"none", "undefined"}
            /\ env.to => req[r].mailTo = "EMAIL_TO"
            /\ (~env.to /\ env.user) => req[r].mailTo = "EMAIL_USER"

====
